---- MODULE Spec2Model ----
(***************************************************************************)
(* Client core of ai-streamer-demo: the audio sequencer (AudioQueue.ts),   *)
(* the WebSocket hook that demultiplexes inbound frames (useWebSocket.ts), *)
(* the transcript/presentation store (useLiveStore) and the send gateway   *)
(* (ChatBox.handleSend + sendMessage).                                     *)
(*                                                                         *)
(* Every handler runs to completion on the single JavaScript event loop,   *)
(* so each handler is one action.  The browser is the environment: it      *)
(* delivers inbound frames and, for every HTMLAudioElement the sequencer   *)
(* created, the notifications the element can still produce (ended, the    *)
(* error event, the rejection of the play() promise).                      *)
(***************************************************************************)
EXTENDS Naturals, Sequences, FiniteSets

\* ------------------------------------------------------------------ bounds
MaxEnqueue == 3      \* enqueue() calls in one behaviour
MaxClear == 1        \* clear() calls in one behaviour
MaxInbound == 3      \* inbound frames in one behaviour
MaxSend == 3         \* handleSend() calls in one behaviour
MaxConnect == 2      \* handleConnect() calls in one behaviour
MaxTicks == 2        \* clock ticks in one behaviour
MaxPieces == 3       \* pieces a raw inbound message is made of

\* ------------------------------------------------------- program constants
Cooldown == 2000     \* ChatBox.handleSend: minimum resubmission interval, ms
TickMs == 1000       \* granularity of the modelled clock, ms
StartMs == Cooldown  \* Date.now() when the page loads: any value >= Cooldown

\* Payloads of an audio fragment: the empty string, or some base64 text.
Payloads == {"", "mp3"}
\* Texts of assistant tokens, and what the user types (" " is blank).
Tokens == {"a", "b"}
UserTexts == {"hi", " "}
EchoTexts == {"hi"}
\* What the user types and what is echoed where the gateway is studied alone.
GatewayTexts == {"hi", "yo", " "}
GatewayEchoes == {"hi", "yo"}
\* What the room field can hold.
RoomIds == {"", "star"}

NULL == 0            \* currentAudio = null

\* A raw inbound message is the sequence of its characters.
UserPrefix == <<"[", "U", "S", "E", "R", ":">>
AudioPrefix == <<"[", "A", "U", "D", "I", "O", ":">>
EofText == <<"[", "E", "O", "F", "]">>
\* The pieces raw messages are made of.
Pieces == {UserPrefix, AudioPrefix, <<"[", "E", "O", "F">>, <<"]">>, <<"a">>}

VARIABLES
    queue,           \* AudioQueue.queue: fragments waiting, head first
    isPlaying,       \* AudioQueue.isPlaying
    currentAudio,    \* AudioQueue.currentAudio: index into audios, or NULL
    audios,          \* every HTMLAudioElement created so far, in creation order
    streamerState,   \* useLiveStore.streamerState
    messages,        \* useLiveStore.messages: the transcript
    isReceivingBotMessage,  \* useWebSocket: isReceivingBotMessage.current
    sentMessages,    \* useWebSocket: sentMessagesRef.current
    status,          \* useWebSocket: status
    ws,              \* wsRef.current: none, connecting, open, failed or closed
    lastSendTime,    \* ChatBox: lastSendTime
    now,             \* Date.now()
    cbLog,           \* the last two values passed to onPlaybackStateChange
    enqueued,        \* history: every fragment handed to enqueue(), in order
    nClear,          \* history: number of clear() calls
    clearedAudio,    \* history: the element the last clear() paused, or NULL
    clearMark,       \* history: how many fragments had been handed to
                     \*          enqueue() when clear() was last called
    clearCbs,        \* history: callback(false) calls the last clear() caused
    midReception,    \* history: a TextToken arrived since the last StreamEnd
                     \*          or connection start
    eofPending,      \* history: StreamEnd arrived while playing; since then no
                     \*          TextToken arrived and playback has not stopped
    lastEvent,       \* history: the handler that ran last
    budget,          \* history: inputs used so far (bounds the behaviour)
    sourceNode,      \* AudioQueue.sourceNode: index into audios, or NULL
    isCooldown,      \* ChatBox: isCooldown
    wire,            \* history: what was handed to WebSocket.send(), and when
    run,             \* history: the TextToken run in progress (see StartRun)
    raw,             \* the raw inbound message classified last
    frame,           \* what the branch order of ws.onmessage made of raw
    audioContext,    \* AudioQueue.audioContext and analyser exist
    turns,           \* history: the token runs received since the transcript
                     \*          was cleared, one sequence of tokens per turn
    turnOpen,        \* history: no StreamEnd since the last TextToken
    fresh,           \* history: no TextToken yet on the current connection
    stale            \* superseded sockets whose close event is still to
                     \* come: "failing" (error first) or "closing"

vars == <<queue, isPlaying, currentAudio, audios, streamerState, messages,
          isReceivingBotMessage, sentMessages, status, ws, lastSendTime, now,
          cbLog, enqueued, nClear, clearedAudio, clearMark, clearCbs, midReception,
          eofPending, lastEvent, budget, sourceNode, isCooldown, wire, run,
          raw, frame, audioContext, turns, turnOpen, fresh, stale>>

\* What the AudioQueue and its observer never touch.
hookVars == <<messages, isReceivingBotMessage, sentMessages, status, ws,
              lastSendTime, now, midReception, budget, isCooldown, wire,
              run, raw, frame, turns, turnOpen, fresh, stale>>

\* What the hook and the gateway touch only through enqueue().
audioVars == <<queue, isPlaying, currentAudio, audios, cbLog, enqueued,
               nClear, clearedAudio, clearMark, clearCbs, sourceNode, audioContext>>

\* ---------------------------------------------------------------- helpers
AllEvents == {"ended", "error", "reject"}

\* A fragment: its payload and (history) its arrival number.
Fragment(n, data) == [n |-> n, data |-> data]

\* new Audio(...), createMediaElementSource(...).connect(analyser) and play():
\* the element is loading/playing, may still deliver any terminal
\* notification, and its source node is connected to the analyser.
NewAudio(frag) ==
    [frag |-> frag, sounding |-> TRUE, pend |-> AllEvents, reports |-> 0,
     connected |-> TRUE]

\* if (this.sourceNode) { this.sourceNode.disconnect(); this.sourceNode = null }
\* as far as the elements are concerned.
Disconnect(auds, src) ==
    IF src # NULL THEN [auds EXCEPT ![src].connected = FALSE] ELSE auds

\* The observer the hook registers with the AudioQueue.
PlaybackStateChange(playing, receiving) ==
    IF playing THEN "Speaking"
    ELSE IF ~receiving THEN "Idle" ELSE "Thinking"

\* The last two observer calls.
Logged(log, v) == IF Len(log) < 2 THEN Append(log, v) ELSE <<log[2], v>>

\* queue.shift(): the fragment taken and what stays queued.
Shift(q) == [item |-> Head(q), rest |-> Tail(q)]

\* playNext(), entered with the queue q, the flag playing, the reference cur,
\* the elements auds, the source node reference src, and fromAudio: the
\* element whose notification called it (NULL when enqueue() called it).
PlayNext(q, playing, cur, auds, src, fromAudio) ==
    IF playing
    THEN /\ queue' = q
         /\ isPlaying' = playing
         /\ currentAudio' = cur
         /\ audios' = auds
         /\ sourceNode' = src
         /\ UNCHANGED <<streamerState, cbLog, clearCbs>>
    ELSE IF Len(q) = 0
    THEN /\ queue' = q
         /\ isPlaying' = FALSE
         /\ currentAudio' = cur
         /\ audios' = auds
         /\ sourceNode' = src
         /\ streamerState' = PlaybackStateChange(FALSE, isReceivingBotMessage)
         /\ cbLog' = Logged(cbLog, FALSE)
         /\ clearCbs' = IF fromAudio # NULL /\ fromAudio = clearedAudio
                        THEN clearCbs + 1 ELSE clearCbs
    ELSE LET s == Shift(q) IN
         IF s.item.data = ""
         THEN /\ queue' = s.rest
              /\ isPlaying' = playing
              /\ currentAudio' = cur
              /\ audios' = auds
              /\ sourceNode' = src
              /\ UNCHANGED <<streamerState, cbLog, clearCbs>>
         ELSE /\ queue' = s.rest
              /\ isPlaying' = TRUE
              /\ streamerState' = PlaybackStateChange(TRUE, isReceivingBotMessage)
              /\ cbLog' = Logged(cbLog, TRUE)
              /\ audios' = Append(auds, NewAudio(s.item))
              /\ currentAudio' = Len(auds) + 1
              /\ sourceNode' = Len(auds) + 1
              /\ UNCHANGED clearCbs

\* AudioQueue.enqueue(base64Audio), as a method, where initAudioContext
\* succeeds
EnqueueOp(data) ==
    /\ Len(enqueued) < MaxEnqueue
    /\ audioContext' = TRUE
    /\ LET frag == Fragment(Len(enqueued) + 1, data) IN
       /\ enqueued' = Append(enqueued, frag)
       /\ PlayNext(Append(queue, frag), isPlaying, currentAudio, audios,
                   sourceNode, NULL)
    /\ UNCHANGED <<nClear, clearedAudio, clearMark>>

\* What the body shared by the three terminal handlers does:
\* this.isPlaying = false; this.currentAudio = null; this.playNext().
Advance(auds, src, a) == PlayNext(queue, FALSE, NULL, auds, src, a)

\* useLiveStore.addMessage / updateBotReply.  A content is the sequence of
\* the texts concatenated into it.
AddMessage(msgs, role, text) == Append(msgs, [role |-> role, content |-> <<text>>])

UpdateBotReplyAnyRole(msgs, chunk) ==
    IF Len(msgs) = 0 THEN msgs
    ELSE [msgs EXCEPT ![Len(msgs)].content = Append(@, chunk)]

UpdateBotReply(msgs, chunk) ==
    IF Len(msgs) = 0 THEN msgs
    ELSE IF msgs[Len(msgs)].role = "model"
         THEN [msgs EXCEPT ![Len(msgs)].content = Append(@, chunk)]
         ELSE msgs

TrimmedNone(text) == text

\* String.prototype.trim() on what the user typed, as far as it is tested.
Trimmed(text) == IF text = " " THEN "" ELSE text

IndexOfAny(seq, x) == IF Len(seq) > 0 THEN 1 ELSE 0

\* Array.prototype.indexOf, 1-based; 0 when absent.
IndexOf(seq, x) ==
    IF \E i \in 1..Len(seq) : seq[i] = x
    THEN CHOOSE i \in 1..Len(seq) :
            /\ seq[i] = x
            /\ \A j \in 1..(i - 1) : seq[j] # x
    ELSE 0

SpliceAll(seq, i) == SelectSeq(seq, LAMBDA x : x # seq[i])

SpliceRest(seq, i) == SubSeq(seq, 1, i - 1)

\* Array.prototype.splice(i, 1)
Splice(seq, i) == SubSeq(seq, 1, i - 1) \o SubSeq(seq, i + 1, Len(seq))

Event(kind, text) == [kind |-> kind, text |-> text]

\* String.prototype.startsWith / endsWith
StartsWith(msg, p) == Len(msg) >= Len(p) /\ SubSeq(msg, 1, Len(p)) = p

EndsWith(msg, p) ==
    Len(msg) >= Len(p) /\ SubSeq(msg, Len(msg) - Len(p) + 1, Len(msg)) = p

\* String.prototype.substring(a, b), 0-based, for a, b >= 0: both indices are
\* clamped to the length, and swapped when a > b.
Substring(msg, a, b) ==
    LET ca == IF a > Len(msg) THEN Len(msg) ELSE a
        cb == IF b > Len(msg) THEN Len(msg) ELSE b
        lo == IF ca <= cb THEN ca ELSE cb
        hi == IF ca <= cb THEN cb ELSE ca
    IN SubSeq(msg, lo + 1, hi)

Frame(kind, text) == [kind |-> kind, text |-> text]

\* The branch ws.onmessage takes on the raw message msg, and the text it
\* hands to that branch.
Classify(msg) ==
    IF StartsWith(msg, UserPrefix) /\ EndsWith(msg, <<"]">>)
    THEN Frame("UserEcho", Substring(msg, 6, Len(msg) - 1))
    ELSE IF StartsWith(msg, AudioPrefix)
    THEN Frame("AudioChunk", Substring(msg, 7, Len(msg) - 1))
    ELSE IF msg = EofText
    THEN Frame("StreamEnd", <<>>)
    ELSE Frame("TextToken", msg)

RECURSIVE Flatten(_)
Flatten(ps) == IF ps = <<>> THEN <<>> ELSE Head(ps) \o Flatten(Tail(ps))

\* The raw messages: one to MaxPieces pieces, concatenated.
RawMessages ==
    {Flatten(ps) : ps \in UNION {[1..n -> Pieces] : n \in 1..MaxPieces}}

\* History of a run of TextTokens: it is open from a TextToken handled when no
\* text stream was mid-reception, as long as only TextTokens are handled, and
\* ended by the StreamEnd that follows; base is the transcript and toks the
\* texts of the run.  Any other frame, submission or socket event discards it.
NoRun == [st |-> "none", base |-> <<>>, toks |-> <<>>]

StartRun(msgs, text) == [st |-> "open", base |-> msgs, toks |-> <<text>>]

Spend(what) == [budget EXCEPT ![what] = @ + 1]

\* ------------------------------------------------------ AudioQueue actions
\* A direct call of AudioQueue.enqueue(base64Audio)
Enqueue(data) ==
    /\ EnqueueOp(data)
    /\ eofPending' = (eofPending /\ isPlaying')
    /\ lastEvent' = Event("enqueue", "")
    /\ UNCHANGED hookVars

\* currentAudio.onended of element a
OnEnded(a) ==
    /\ a \in 1..Len(audios)
    /\ "ended" \in audios[a].pend
    /\ Advance([audios EXCEPT ![a].sounding = FALSE, ![a].pend = {}],
               sourceNode, a)
    /\ eofPending' = (eofPending /\ isPlaying')
    /\ lastEvent' = Event("ended", "")
    /\ UNCHANGED <<enqueued, nClear, clearedAudio, clearMark, audioContext>>
    /\ UNCHANGED hookVars

\* currentAudio.onerror of element a
OnError(a) ==
    /\ a \in 1..Len(audios)
    /\ "error" \in audios[a].pend
    /\ Advance([audios EXCEPT ![a].sounding = FALSE,
                              ![a].pend = @ \ {"error", "ended"},
                              ![a].reports = @ + 1],
               sourceNode, a)
    /\ eofPending' = (eofPending /\ isPlaying')
    /\ lastEvent' = Event("error", "")
    /\ UNCHANGED <<enqueued, nClear, clearedAudio, clearMark, audioContext>>
    /\ UNCHANGED hookVars

\* currentAudio.play().catch(...) of element a: it disconnects whatever
\* this.sourceNode refers to at that time.
OnPlayRejected(a) ==
    /\ a \in 1..Len(audios)
    /\ "reject" \in audios[a].pend
    /\ Advance(Disconnect([audios EXCEPT ![a].sounding = FALSE,
                                         ![a].pend = @ \ {"reject", "ended"},
                                         ![a].reports = @ + 1],
                          sourceNode),
               NULL, a)
    /\ eofPending' = (eofPending /\ isPlaying')
    /\ lastEvent' = Event("reject", "")
    /\ UNCHANGED <<enqueued, nClear, clearedAudio, clearMark, audioContext>>
    /\ UNCHANGED hookVars

\* new Audio(...) after which createMediaElementSource(...) or connect(...)
\* throws: the element has no handlers and play() was never called.
DeadAudio(frag) ==
    [frag |-> frag, sounding |-> FALSE, pend |-> {}, reports |-> 0,
     connected |-> FALSE]

\* playNext(), entered not playing with the queue q, the elements auds and
\* the source node reference src, where it reaches line 56 and the creation
\* or connection of the source node throws.
PlayNextSourceFails(q, auds, src) ==
    /\ Len(q) > 0
    /\ Shift(q).item.data # ""
    /\ queue' = Shift(q).rest
    /\ isPlaying' = TRUE
    /\ streamerState' = PlaybackStateChange(TRUE, isReceivingBotMessage)
    /\ cbLog' = Logged(cbLog, TRUE)
    /\ audios' = Append(auds, DeadAudio(Shift(q).item))
    /\ currentAudio' = Len(auds) + 1
    /\ sourceNode' = src
    /\ UNCHANGED clearCbs

\* AudioQueue.enqueue(base64Audio) where the AudioContext cannot be created:
\* initAudioContext throws before queue.push.
EnqueueContextFails(data) ==
    /\ ~audioContext
    /\ Len(enqueued) < MaxEnqueue
    /\ enqueued' = Append(enqueued, Fragment(Len(enqueued) + 1, data))
    /\ lastEvent' = Event("enqueueThrew", "")
    /\ UNCHANGED <<queue, isPlaying, currentAudio, audios, cbLog, nClear,
                   clearedAudio, clearMark, clearCbs, sourceNode,
                   audioContext, streamerState, eofPending>>
    /\ UNCHANGED hookVars

\* AudioQueue.enqueue(base64Audio) where playNext throws at the source node
EnqueueSourceFails(data) ==
    /\ ~isPlaying
    /\ Len(enqueued) < MaxEnqueue
    /\ audioContext' = TRUE
    /\ LET frag == Fragment(Len(enqueued) + 1, data) IN
       /\ enqueued' = Append(enqueued, frag)
       /\ PlayNextSourceFails(Append(queue, frag), audios, sourceNode)
    /\ eofPending' = (eofPending /\ isPlaying')
    /\ lastEvent' = Event("enqueueThrew", "")
    /\ UNCHANGED <<nClear, clearedAudio, clearMark>>
    /\ UNCHANGED hookVars

\* currentAudio.onended of element a where playNext throws at the source node
OnEndedSourceFails(a) ==
    /\ a \in 1..Len(audios)
    /\ "ended" \in audios[a].pend
    /\ PlayNextSourceFails(
          queue, [audios EXCEPT ![a].sounding = FALSE, ![a].pend = {}],
          sourceNode)
    /\ eofPending' = (eofPending /\ isPlaying')
    /\ lastEvent' = Event("endedThrew", "")
    /\ UNCHANGED <<enqueued, nClear, clearedAudio, clearMark, audioContext>>
    /\ UNCHANGED hookVars

\* AudioQueue.clear()
Clear ==
    /\ nClear < MaxClear
    /\ nClear' = nClear + 1
    /\ queue' = <<>>
    /\ audios' = Disconnect(
                    IF currentAudio # NULL
                    THEN [audios EXCEPT ![currentAudio].sounding = FALSE,
                                        ![currentAudio].pend = @ \ {"ended"}]
                    ELSE audios,
                    sourceNode)
    /\ sourceNode' = NULL
    /\ clearedAudio' = currentAudio
    /\ clearMark' = Len(enqueued)
    /\ currentAudio' = NULL
    /\ isPlaying' = FALSE
    /\ streamerState' = PlaybackStateChange(FALSE, isReceivingBotMessage)
    /\ cbLog' = Logged(cbLog, FALSE)
    /\ clearCbs' = 1
    /\ eofPending' = FALSE
    /\ lastEvent' = Event("clear", "")
    /\ UNCHANGED <<enqueued, audioContext>>
    /\ UNCHANGED hookVars

\* ------------------------------------------------------------ hook actions
\* App.handleConnect with the room field holding roomId:
\* clearMessages(); reconnect(), and connect() returns early on an empty roomId.
\* The sockets connect() has replaced, after it called close() on the one in
\* wsRef.current: a socket closed while it was connecting fails (browsers
\* differ on whether error is fired before close), an open or failed one
\* closes; the handlers connect() gave it stay attached.
Superseded(roomId) ==
    IF roomId = "" \/ ws \in {"none", "closed"} THEN {stale}
    ELSE IF ws = "connecting"
         THEN {Append(stale, "failing"), Append(stale, "closing")}
         ELSE {Append(stale, "closing")}

HandleConnect(roomId) ==
    /\ status # "Connected"            \* the button is shown only then
    /\ budget.connect < MaxConnect
    /\ budget' = Spend("connect")
    /\ messages' = <<>>
    /\ IF roomId = ""
       THEN UNCHANGED <<status, ws>>
       ELSE /\ status' = "Connecting"
            /\ ws' = "connecting"
    /\ lastEvent' = Event("connect", "")
    /\ run' = NoRun
    /\ UNCHANGED <<isReceivingBotMessage, sentMessages, lastSendTime, now,
                   streamerState, midReception, eofPending>>
    /\ UNCHANGED <<isCooldown, wire, raw, frame>>
    /\ turns' = <<>>
    /\ turnOpen' = (roomId = "" /\ turnOpen)
    /\ stale' \in Superseded(roomId)
    /\ UNCHANGED fresh
    /\ UNCHANGED audioVars

\* ws.onopen
OnOpen ==
    /\ ws = "connecting"
    /\ ws' = "open"
    /\ status' = "Connected"
    /\ messages' = AddMessage(messages, "system", "connected")
    /\ midReception' = FALSE
    /\ lastEvent' = Event("open", "")
    /\ run' = NoRun
    /\ UNCHANGED <<isReceivingBotMessage, sentMessages, lastSendTime, now,
                   streamerState, eofPending, budget>>
    /\ UNCHANGED <<isCooldown, wire, raw, frame>>
    /\ fresh' = TRUE
    /\ UNCHANGED <<turns, turnOpen, stale>>
    /\ UNCHANGED audioVars

\* ws.onclose
OnClose ==
    /\ ws \in {"connecting", "open", "failed"}
    /\ ws' = "closed"
    /\ status' = "Disconnected"
    /\ lastEvent' = Event("close", "")
    /\ run' = NoRun
    /\ UNCHANGED <<messages, isReceivingBotMessage, sentMessages, lastSendTime,
                   now, streamerState, midReception, eofPending, budget>>
    /\ UNCHANGED <<isCooldown, wire, raw, frame>>
    /\ UNCHANGED <<turns, turnOpen, fresh, stale>>
    /\ UNCHANGED audioVars

\* onerror of a superseded socket
StaleError(i) ==
    /\ i \in 1..Len(stale)
    /\ stale[i] = "failing"
    /\ stale' = [stale EXCEPT ![i] = "closing"]
    /\ status' = "Error"
    /\ lastEvent' = Event("staleError", "")
    /\ run' = NoRun
    /\ UNCHANGED <<messages, isReceivingBotMessage, sentMessages, ws,
                   lastSendTime, now, streamerState, midReception, eofPending,
                   budget>>
    /\ UNCHANGED <<isCooldown, wire, raw, frame>>
    /\ UNCHANGED <<turns, turnOpen, fresh>>
    /\ UNCHANGED audioVars

\* onclose of a superseded socket
StaleClose(i) ==
    /\ i \in 1..Len(stale)
    /\ stale[i] = "closing"
    /\ stale' = [k \in 1..(Len(stale) - 1) |->
                    IF k < i THEN stale[k] ELSE stale[k + 1]]
    /\ status' = "Disconnected"
    /\ lastEvent' = Event("staleClose", "")
    /\ run' = NoRun
    /\ UNCHANGED <<messages, isReceivingBotMessage, sentMessages, ws,
                   lastSendTime, now, streamerState, midReception, eofPending,
                   budget>>
    /\ UNCHANGED <<isCooldown, wire, raw, frame>>
    /\ UNCHANGED <<turns, turnOpen, fresh>>
    /\ UNCHANGED audioVars

\* ws.onerror: the browser fails the connection, delivers no further frame
\* and fires close next.
OnSocketError ==
    /\ ws \in {"connecting", "open"}
    /\ ws' = "failed"
    /\ status' = "Error"
    /\ lastEvent' = Event("wserror", "")
    /\ run' = NoRun
    /\ UNCHANGED <<messages, isReceivingBotMessage, sentMessages,
                   lastSendTime, now, streamerState, midReception, eofPending,
                   budget>>
    /\ UNCHANGED <<isCooldown, wire, raw, frame>>
    /\ UNCHANGED <<turns, turnOpen, fresh, stale>>
    /\ UNCHANGED audioVars

Inbound ==
    /\ ws = "open"
    /\ budget.inbound < MaxInbound
    /\ budget' = Spend("inbound")

\* ws.onmessage, branch 1: [USER:text]
OnUserEcho(text) ==
    /\ Inbound
    /\ LET sentIndex == IndexOf(sentMessages, text) IN
       IF sentIndex # 0
       THEN /\ sentMessages' = Splice(sentMessages, sentIndex)
            /\ UNCHANGED messages
       ELSE /\ messages' = AddMessage(messages, "other-user", text)
            /\ UNCHANGED sentMessages
    /\ lastEvent' = Event("echo", text)
    /\ run' = NoRun
    /\ UNCHANGED <<isReceivingBotMessage, status, ws, lastSendTime, now,
                   streamerState, midReception, eofPending>>
    /\ UNCHANGED <<isCooldown, wire, raw, frame>>
    /\ UNCHANGED <<turns, turnOpen, fresh, stale>>
    /\ UNCHANGED audioVars

\* ws.onmessage, branch 2: [AUDIO:payload]
OnAudioChunk(data) ==
    /\ Inbound
    /\ EnqueueOp(data)
    /\ eofPending' = (eofPending /\ isPlaying')
    /\ lastEvent' = Event("audio", "")
    /\ run' = NoRun
    /\ UNCHANGED <<messages, isReceivingBotMessage, sentMessages, status, ws,
                   lastSendTime, now, midReception>>
    /\ UNCHANGED <<isCooldown, wire, raw, frame>>
    /\ UNCHANGED <<turns, turnOpen, fresh, stale>>

\* What the [EOF] branch leaves in streamerState.
StateOnStreamEnd(playing, state) == IF ~playing THEN "Idle" ELSE state

\* ws.onmessage, branch 3: [EOF]
OnStreamEnd ==
    /\ Inbound
    /\ isReceivingBotMessage' = FALSE
    /\ streamerState' = StateOnStreamEnd(isPlaying, streamerState)
    /\ midReception' = FALSE
    /\ eofPending' = isPlaying
    /\ lastEvent' = Event("eof", "")
    /\ run' = IF run.st = "open" THEN [run EXCEPT !.st = "ended"] ELSE NoRun
    /\ UNCHANGED <<messages, sentMessages, status, ws, lastSendTime, now>>
    /\ UNCHANGED <<isCooldown, wire, raw, frame>>
    /\ turnOpen' = FALSE
    /\ UNCHANGED <<turns, fresh, stale>>
    /\ UNCHANGED audioVars

StateOnFirstTokenAlways(playing, state) == "Thinking"

\* What the first chunk of a reply leaves in streamerState.
StateOnFirstToken(playing, state) == IF ~playing THEN "Thinking" ELSE state

\* ws.onmessage, branch 4: anything else is a chunk of the reply
OnTextToken(text) ==
    /\ Inbound
    /\ IF ~isReceivingBotMessage
       THEN /\ isReceivingBotMessage' = TRUE
            /\ messages' = AddMessage(messages, "model", text)
            /\ streamerState' = StateOnFirstToken(isPlaying, streamerState)
       ELSE /\ messages' = UpdateBotReply(messages, text)
            /\ UNCHANGED <<isReceivingBotMessage, streamerState>>
    /\ midReception' = TRUE
    /\ eofPending' = FALSE
    /\ lastEvent' = Event("token", text)
    /\ run' = IF run.st = "open" THEN [run EXCEPT !.toks = Append(@, text)]
              ELSE IF ~midReception THEN StartRun(messages, text)
              ELSE NoRun
    /\ UNCHANGED <<sentMessages, status, ws, lastSendTime, now>>
    /\ UNCHANGED <<isCooldown, wire, raw, frame>>
    /\ turns' = IF turnOpen /\ turns # <<>>
                THEN [turns EXCEPT ![Len(turns)] = Append(@, text)]
                ELSE Append(turns, <<text>>)
    /\ turnOpen' = TRUE
    /\ fresh' = FALSE
    /\ UNCHANGED stale
    /\ UNCHANGED audioVars

\* --------------------------------------------------------- gateway actions
\* wsRef.current.send(text), called at time at
Sent(text, at) == [text |-> text, at |-> at]

SendMessageNoRecord(text) ==
    IF ws = "open" /\ Trimmed(text) # ""
    THEN /\ messages' = AddMessage(messages, "user", text)
         /\ wire' = Append(wire, Sent(text, now))
         /\ UNCHANGED sentMessages
    ELSE UNCHANGED <<messages, sentMessages, wire>>

\* useWebSocket.sendMessage(text)
SendMessage(text) ==
    IF ws = "open" /\ Trimmed(text) # ""
    THEN /\ messages' = AddMessage(messages, "user", text)
         /\ sentMessages' = Append(sentMessages, text)
         /\ wire' = Append(wire, Sent(text, now))
    ELSE UNCHANGED <<messages, sentMessages, wire>>

InCooldownOneTick(t, last) == t - last < TickMs

\* The test that opens ChatBox.handleSend, at time t with lastSendTime = last.
InCooldown(t, last) == t - last < Cooldown

\* ChatBox.handleSend with inputText = text
HandleSend(text) ==
    /\ status = "Connected" /\ ~isCooldown   \* the input is enabled only then
    /\ budget.send < MaxSend
    /\ budget' = Spend("send")
    /\ IF InCooldown(now, lastSendTime)
       THEN /\ isCooldown' = TRUE
            /\ UNCHANGED <<messages, sentMessages, wire, lastSendTime>>
       ELSE IF Trimmed(text) # ""
            THEN /\ SendMessage(text)
                 /\ lastSendTime' = now
                 /\ UNCHANGED isCooldown
            ELSE UNCHANGED <<messages, sentMessages, wire, lastSendTime,
                             isCooldown>>
    /\ lastEvent' = Event("send", text)
    /\ run' = NoRun
    /\ UNCHANGED <<isReceivingBotMessage, status, ws, now, streamerState,
                   midReception, eofPending, raw, frame>>
    /\ UNCHANGED <<turns, turnOpen, fresh, stale>>
    /\ UNCHANGED audioVars

\* The timer ChatBox.handleSend sets when it rejects for cooldown: it fires
\* 2000 - (now - lastSendTime) ms later, that is, not before
\* lastSendTime + 2000, and calls setIsCooldown(false).
CooldownExpired ==
    /\ isCooldown
    /\ ~InCooldown(now, lastSendTime)
    /\ isCooldown' = FALSE
    /\ lastEvent' = Event("cooldownExpired", "")
    /\ UNCHANGED <<messages, isReceivingBotMessage, sentMessages, status, ws,
                   lastSendTime, now, streamerState, midReception, eofPending,
                   budget, wire, run, raw, frame>>
    /\ UNCHANGED <<turns, turnOpen, fresh, stale>>
    /\ UNCHANGED audioVars

\* Time passes.
Tick ==
    /\ budget.tick < MaxTicks
    /\ budget' = Spend("tick")
    /\ now' = now + TickMs
    /\ UNCHANGED <<messages, isReceivingBotMessage, sentMessages, status, ws,
                   lastSendTime, streamerState, midReception, eofPending,
                   lastEvent, isCooldown, wire, run, raw, frame>>
    /\ UNCHANGED <<turns, turnOpen, fresh, stale>>
    /\ UNCHANGED audioVars

\* ------------------------------------------------------------------- specs
Init ==
    /\ queue = <<>>
    /\ isPlaying = FALSE
    /\ currentAudio = NULL
    /\ audios = <<>>
    /\ streamerState = "Idle"
    /\ messages = <<>>
    /\ isReceivingBotMessage = FALSE
    /\ sentMessages = <<>>
    /\ status = "Disconnected"
    /\ ws = "none"
    /\ lastSendTime = 0
    /\ now = StartMs
    /\ cbLog = <<>>
    /\ enqueued = <<>>
    /\ nClear = 0
    /\ clearedAudio = NULL
    /\ clearMark = 0
    /\ clearCbs = 0
    /\ midReception = FALSE
    /\ eofPending = FALSE
    /\ lastEvent = Event("init", "")
    /\ budget = [inbound |-> 0, send |-> 0, connect |-> 0, tick |-> 0]
    /\ sourceNode = NULL
    /\ isCooldown = FALSE
    /\ wire = <<>>
    /\ run = NoRun
    /\ raw = <<>>
    /\ frame = Frame("none", <<>>)
    /\ audioContext = FALSE
    /\ turns = <<>>
    /\ turnOpen = FALSE
    /\ fresh = FALSE
    /\ stale = <<>>

\* The AudioQueue driven through its public interface and its elements' events.
AudioNext ==
    \/ \E d \in Payloads : Enqueue(d)
    \/ \E a \in 1..Len(audios) : OnEnded(a)
    \/ \E a \in 1..Len(audios) : OnError(a)
    \/ \E a \in 1..Len(audios) : OnPlayRejected(a)
    \/ Clear

AudioSpec == Init /\ [][AudioNext]_vars

\* The page: the hook's socket and frame handlers, the gateway, and the
\* events of the audio elements the frames made the sequencer create.
Next ==
    \/ \E r \in RoomIds : HandleConnect(r)
    \/ OnOpen
    \/ \E i \in 1..Len(stale) : StaleError(i)
    \/ \E i \in 1..Len(stale) : StaleClose(i)
    \/ OnClose
    \/ OnSocketError
    \/ \E t \in EchoTexts : OnUserEcho(t)
    \/ \E d \in Payloads : OnAudioChunk(d)
    \/ OnStreamEnd
    \/ \E t \in Tokens : OnTextToken(t)
    \/ \E t \in UserTexts : HandleSend(t)
    \/ CooldownExpired
    \/ Tick
    \/ \E a \in 1..Len(audios) : OnEnded(a)
    \/ \E a \in 1..Len(audios) : OnError(a)
    \/ \E a \in 1..Len(audios) : OnPlayRejected(a)

Spec == Init /\ [][Next]_vars

\* The page within one cooldown window and without socket errors: the socket,
\* the inbound frames, submissions, and the events of the audio elements.
FuserNext ==
    \/ \E t \in EchoTexts : OnUserEcho(t)
    \/ \E t \in UserTexts : HandleSend(t)
    \/ \E r \in RoomIds : HandleConnect(r)
    \/ OnOpen
    \/ \E i \in 1..Len(stale) : StaleError(i)
    \/ \E i \in 1..Len(stale) : StaleClose(i)
    \/ OnClose
    \/ \E d \in Payloads : OnAudioChunk(d)
    \/ OnStreamEnd
    \/ \E t \in Tokens : OnTextToken(t)
    \/ \E a \in 1..Len(audios) : OnEnded(a)
    \/ \E a \in 1..Len(audios) : OnError(a)
    \/ \E a \in 1..Len(audios) : OnPlayRejected(a)

FuserSpec == Init /\ [][FuserNext]_vars

\* ws.onmessage up to the choice of its branch, on the raw message msg.
Deliver(msg) ==
    /\ raw' = msg
    /\ frame' = Classify(msg)
    /\ UNCHANGED <<messages, isReceivingBotMessage, sentMessages, status, ws,
                   lastSendTime, now, streamerState, midReception, eofPending,
                   lastEvent, budget, isCooldown, wire, run>>
    /\ UNCHANGED <<turns, turnOpen, fresh, stale>>
    /\ UNCHANGED audioVars

\* The classification of inbound messages alone.
ClassifyNext == \E msg \in RawMessages : Deliver(msg)

ClassifySpec == Init /\ [][ClassifyNext]_vars

\* The gateway and the echo suppressor: the socket, submissions, the cooldown
\* timer, the clock and inbound [USER:...] frames.
GatewayNext ==
    \/ \E r \in RoomIds : HandleConnect(r)
    \/ OnOpen
    \/ \E i \in 1..Len(stale) : StaleError(i)
    \/ \E i \in 1..Len(stale) : StaleClose(i)
    \/ OnClose
    \/ \E t \in GatewayEchoes : OnUserEcho(t)
    \/ \E t \in GatewayTexts : HandleSend(t)
    \/ CooldownExpired
    \/ Tick

GatewaySpec == Init /\ [][GatewayNext]_vars

\* The AudioQueue where every element that is loading or playing eventually
\* delivers a terminal notification (the browser ends, fails or rejects every
\* playback it was asked to start).
Terminal(a) == OnEnded(a) \/ OnError(a) \/ OnPlayRejected(a)

AudioFairSpec ==
    /\ Init
    /\ [][AudioNext]_vars
    /\ \A a \in 1..MaxEnqueue :
          WF_vars(a \in 1..Len(audios) /\ audios[a].sounding /\ Terminal(a))

\* The AudioQueue in a browser where the creation of the AudioContext or of
\* a source node can fail.
GraphNext ==
    \/ \E d \in Payloads : Enqueue(d)
    \/ \E d \in Payloads : EnqueueContextFails(d)
    \/ \E d \in Payloads : EnqueueSourceFails(d)
    \/ \E a \in 1..Len(audios) : OnEnded(a)
    \/ \E a \in 1..Len(audios) : OnEndedSourceFails(a)
    \/ \E a \in 1..Len(audios) : OnError(a)
    \/ \E a \in 1..Len(audios) : OnPlayRejected(a)
    \/ Clear

GraphFairSpec ==
    /\ Init
    /\ [][GraphNext]_vars
    /\ \A a \in 1..MaxEnqueue :
          WF_vars(a \in 1..Len(audios) /\ audios[a].sounding /\ Terminal(a))

\* The transcript and everything that writes to it: the socket, the text
\* frames, and submissions within one cooldown window.
StoreNext ==
    \/ \E r \in RoomIds : HandleConnect(r)
    \/ OnOpen
    \/ \E i \in 1..Len(stale) : StaleError(i)
    \/ \E i \in 1..Len(stale) : StaleClose(i)
    \/ OnClose
    \/ \E t \in EchoTexts : OnUserEcho(t)
    \/ OnStreamEnd
    \/ \E t \in Tokens : OnTextToken(t)
    \/ \E t \in UserTexts : HandleSend(t)

StoreSpec == Init /\ [][StoreNext]_vars

\* The socket, the inbound audio frames and the events of the audio elements,
\* where every element that is loading or playing eventually delivers a
\* terminal notification.
CloseNext ==
    \/ \E r \in RoomIds : HandleConnect(r)
    \/ OnOpen
    \/ \E i \in 1..Len(stale) : StaleError(i)
    \/ \E i \in 1..Len(stale) : StaleClose(i)
    \/ OnClose
    \/ OnSocketError
    \/ \E d \in Payloads : OnAudioChunk(d)
    \/ \E a \in 1..Len(audios) : OnEnded(a)
    \/ \E a \in 1..Len(audios) : OnError(a)
    \/ \E a \in 1..Len(audios) : OnPlayRejected(a)

CloseFairSpec ==
    /\ Init
    /\ [][CloseNext]_vars
    /\ \A a \in 1..MaxEnqueue :
          WF_vars(a \in 1..Len(audios) /\ audios[a].sounding /\ Terminal(a))

\* ------------------------------------------------------- claim vocabulary
\* The elements that are loading or playing: started, and neither ended,
\* failed, rejected nor paused.
Sounding == {a \in 1..Len(audios) : audios[a].sounding}

\* The fragments that began playback, in the order they began.
Started == [a \in 1..Len(audios) |-> audios[a].frag]

IsPrefix(s, t) == Len(s) <= Len(t) /\ \A i \in 1..Len(s) : s[i] = t[i]

HasPayload(frag) == frag.data # ""

\* A pending echo record equal to t exists.
Pending(t) == \E i \in 1..Len(sentMessages) : sentMessages[i] = t

\* s without its i-th element.
Without(s, i) ==
    [j \in 1..(Len(s) - 1) |-> IF j < i THEN s[j] ELSE s[j + 1]]

\* This step handles an inbound [USER:t] frame.
EchoStep(t) ==
    lastEvent' = Event("echo", t) /\ budget'.inbound = budget.inbound + 1

\* This step is a submit() of t.
SubmitStep(t) ==
    lastEvent' = Event("send", t) /\ budget'.send = budget.send + 1

\* t is empty or whitespace only.
Blank(t) == t \in {"", " "}

LocalUser(t) == [role |-> "user", content |-> <<t>>]

RemoteUser(t) == [role |-> "other-user", content |-> <<t>>]

\* ------------------------------------------------------------------ claims
\* C1: at most one playback session is active at any instant: no fragment is
\* started while an earlier started fragment is still loading or playing.
C1_AtMostOneSession == Cardinality(Sounding) <= 1

\* C2: with no clear(), the fragments that began playback are a prefix of the
\* fragments enqueued: none skipped, duplicated or reordered.
C2_StartedIsPrefixOfEnqueued ==
    nClear = 0 => IsPrefix(Started, enqueued)

\* What the code keeps of the order: with no clear(), the fragments that began
\* playback are a prefix of the enqueued fragments that have a payload.
FifoOfNonEmpty ==
    nClear = 0 => IsPrefix(Started, SelectSeq(enqueued, HasPayload))

\* C3: the observer is called once per Idle<->Playing transition and never
\* once per fragment: two consecutive calls never carry the same value.
C3_CallbackAlternates == Len(cbLog) = 2 => cbLog[1] # cbLog[2]

\* C4: clear() leaves the sequencer not playing, with an empty queue and no
\* current session, and causes callback(false) at most once, counting the
\* calls that notifications of the cleared session cause later.
C4_ClearIdleAtMostOneCallback ==
    /\ lastEvent.kind = "clear" =>
          ~isPlaying /\ queue = <<>> /\ currentAudio = NULL
    /\ clearCbs <= 1

\* C5: a failed fragment does not stall the queue: every fragment with a
\* payload that was enqueued after a fragment that failed eventually begins
\* playback unless clear() is called, a playing sequencer eventually stops
\* playing, and every failed fragment is reported exactly once.
C5_FailureAdvancesOneReport ==
    /\ \A n \in 1..MaxEnqueue :
          (/\ Len(enqueued) >= n
           /\ HasPayload(enqueued[n])
           /\ \E a \in 1..Len(audios) :
                 audios[a].frag.n < n /\ audios[a].reports >= 1)
             ~> (nClear > 0 \/ \E a \in 1..Len(audios) : audios[a].frag.n = n)
    /\ isPlaying ~> ~isPlaying
    /\ [](\A a \in 1..Len(audios) : audios[a].reports <= 1)

\* C6: whenever the AudioQueue is playing, the presentation state is
\* Speaking, whatever frames and submissions are handled meanwhile.
C6_PlayingIsSpeaking == isPlaying => streamerState = "Speaking"

\* C6 witness: a TextToken has just been handled while the AudioQueue was
\* playing, and a reply is being received.
C6_Witness ==
    /\ isPlaying
    /\ lastEvent.kind = "token"
    /\ isReceivingBotMessage
    /\ streamerState = "Speaking"

\* C7: whenever the AudioQueue is not playing and a text stream is
\* mid-reception, the presentation state is Thinking.
C7_IdleMidReceptionIsThinking ==
    (~isPlaying /\ midReception) => streamerState = "Thinking"

\* C8: whenever the AudioQueue is not playing and no text stream is
\* mid-reception, the presentation state is Idle.
C8_IdleNoReceptionIsIdle ==
    (~isPlaying /\ ~midReception) => streamerState = "Idle"

\* C9: a StreamEnd handled while the AudioQueue is playing leaves the queue,
\* the session and the flag as they are and the state Speaking; from then on
\* the state is Speaking as long as the AudioQueue plays, and in the step in
\* which it stops playing the state becomes Idle.
C9_StreamEndKeepsSpeakingThenIdle ==
    [][ /\ (isPlaying /\ lastEvent'.kind = "eof"
                      /\ budget'.inbound # budget.inbound)
              => /\ UNCHANGED <<queue, currentAudio, isPlaying, audios>>
                 /\ streamerState' = "Speaking"
        /\ (eofPending /\ isPlaying') => streamerState' = "Speaking"
        /\ (eofPending /\ ~isPlaying') => streamerState' = "Idle" ]_vars

\* C10: no TextToken is dropped: once a TextToken has been handled, its text
\* is part of the content of an Assistant entry of the transcript.
C10_NoTokenDropped ==
    lastEvent.kind = "token" =>
        \E i \in 1..Len(messages) :
            /\ messages[i].role = "model"
            /\ \E k \in 1..Len(messages[i].content) :
                  messages[i].content[k] = lastEvent.text

\* C11: a run of k >= 1 TextTokens followed by StreamEnd, with no other frame
\* or submission in between, adds exactly one Assistant entry to the
\* transcript, and its content is the token texts in arrival order.
C11_RunMakesOneAssistantEntry ==
    run.st = "ended" =>
        messages = Append(run.base, [role |-> "model", content |-> run.toks])

\* C12: an inbound [USER:t] frame handled while a submission of t is pending
\* adds no transcript entry and removes exactly one pending record equal to
\* t: the transcript after the echo equals the transcript before it.
C12_EchoOfPendingSuppressed ==
    [][ \A t \in GatewayEchoes :
          (EchoStep(t) /\ Pending(t)) =>
              /\ messages' = messages
              /\ \E i \in 1..Len(sentMessages) :
                    /\ sentMessages[i] = t
                    /\ sentMessages' = Without(sentMessages, i) ]_vars

\* C12 witness: two different texts were submitted, the echo of the second
\* has just been handled, every echo so far was suppressed, and the record
\* of the first submission is still pending.
C12_Witness ==
    /\ lastEvent.kind = "echo"
    /\ Len(wire) = 2
    /\ wire[2].text = lastEvent.text
    /\ wire[1].text # wire[2].text
    /\ sentMessages = <<wire[1].text>>
    /\ \A i \in 1..Len(messages) : messages[i].role # "other-user"

\* C13: an inbound [USER:t] frame handled while no pending record equals t
\* appends exactly one RemoteUser entry with content t to the transcript
\* tail and leaves the pending list unchanged.
C13_UnmatchedEchoAppended ==
    [][ \A t \in GatewayEchoes :
          (EchoStep(t) /\ ~Pending(t)) =>
              /\ messages' = Append(messages, RemoteUser(t))
              /\ sentMessages' = sentMessages ]_vars

\* C13 witness: an echo has just been appended as a RemoteUser entry while a
\* submission of another text is pending.
C13_Witness ==
    /\ lastEvent.kind = "echo"
    /\ sentMessages # <<>>
    /\ ~Pending(lastEvent.text)
    /\ messages # <<>>
    /\ messages[Len(messages)] = RemoteUser(lastEvent.text)

\* C14: a submit() that is rejected (blank text, or less than the cooldown
\* elapsed since the last accepted submission) appends no transcript entry,
\* adds no pending record, sends nothing on the wire and leaves the
\* last-accepted-submission time unchanged.
C14_RejectedChangesNothing ==
    [][ \A t \in GatewayTexts :
          (SubmitStep(t) /\ (Blank(t) \/ now - lastSendTime < Cooldown)) =>
              UNCHANGED <<messages, sentMessages, wire, lastSendTime>> ]_vars

\* C14 witness: a non-blank submit() has just been rejected for cooldown
\* after an accepted one.
C14_Witness ==
    /\ lastEvent.kind = "send"
    /\ ~Blank(lastEvent.text)
    /\ isCooldown
    /\ Len(wire) = 1
    /\ now - lastSendTime < Cooldown

C16_AcceptedCooldownApart ==
    /\ [](\A i, j \in 1..Len(wire) :
             i < j => /\ wire[j].at >= wire[i].at
                      /\ wire[j].at - wire[i].at >= Cooldown)
    /\ [][ \A t \in GatewayTexts :
             SubmitStep(t) =>
                 IF ~Blank(t) /\ now - lastSendTime >= Cooldown
                 THEN wire' = Append(wire, Sent(t, now)) /\ lastSendTime' = now
                 ELSE wire' = wire /\ lastSendTime' = lastSendTime ]_vars

\* C16 witness: a submit() has just been accepted at the first tick at or
\* after the cooldown boundary of the accepted submission before it.
C16_Witness ==
    /\ lastEvent.kind = "send"
    /\ Len(wire) = 2
    /\ wire[2].at = now
    /\ wire[2].at - wire[1].at >= Cooldown
    /\ wire[2].at - wire[1].at < Cooldown + TickMs

\* The frame kinds by the fixed priority: UserEcho iff the message matches
\* [USER:<text>], otherwise AudioChunk iff it matches [AUDIO:<payload>]
\* including the closing bracket, otherwise StreamEnd iff it equals [EOF],
\* otherwise TextToken; the text is the enclosed content.
Enclosed(msg, p) == SubSeq(msg, Len(p) + 1, Len(msg) - 1)

FrameByPriority(msg) ==
    IF StartsWith(msg, UserPrefix) /\ EndsWith(msg, <<"]">>)
    THEN Frame("UserEcho", Enclosed(msg, UserPrefix))
    ELSE IF StartsWith(msg, AudioPrefix) /\ EndsWith(msg, <<"]">>)
    THEN Frame("AudioChunk", Enclosed(msg, AudioPrefix))
    ELSE IF msg = EofText
    THEN Frame("StreamEnd", <<>>)
    ELSE Frame("TextToken", msg)

\* C17: every raw inbound message is classified as exactly one frame kind by
\* the fixed priority (UserEcho, AudioChunk with its closing bracket,
\* StreamEnd, TextToken), the payload being exactly the enclosed content.
C17_ClassifiedByPriority ==
    frame.kind # "none" => frame = FrameByPriority(raw)

\* The elements whose source node is connected to the analyser.
Connected == {a \in 1..Len(audios) : audios[a].connected}

\* C18: at most one source node is connected to the analyser at any time,
\* and only that of a session that has not reached its terminal event and
\* was not cleared: no source node of an earlier fragment is connected once
\* a later fragment's session has started.
C18_OneLiveSourceNode ==
    /\ \A a \in Connected : audios[a].sounding
    /\ Cardinality(Connected) <= 1

\* The notice ws.onopen appends.
Notice == [role |-> "system", content |-> <<"connected">>]

\* C19: when a connection opens, the transcript is reset (it holds nothing
\* but the connection notice) and, unless the AudioQueue is playing, the
\* presentation state is Idle, whatever they and the mid-reception flag were
\* before.
C19_OpenResets ==
    lastEvent.kind = "open" =>
        /\ messages = <<Notice>>
        /\ ~isPlaying => streamerState = "Idle"

\* This step is a close or error event of the socket.
CloseStep == ws' # ws /\ ws' \in {"closed", "failed"}

\* This step handles no inbound frame.
NoFrameStep == budget'.inbound = budget.inbound

\* C20: a close or error event of the socket leaves the AudioQueue untouched
\* (queue, session, flag), no inbound frame is handled after it, and every
\* fragment with a payload that was queued when the socket closed still
\* plays to completion afterwards.
C20_CloseLeavesAudio ==
    /\ [][CloseStep => UNCHANGED audioVars]_vars
    /\ [][(ws \in {"closed", "failed"}) => NoFrameStep]_vars
    /\ \A n \in 1..MaxEnqueue :
          (/\ ws = "closed"
           /\ \E i \in 1..Len(queue) : queue[i].n = n /\ HasPayload(queue[i]))
             ~> (\E a \in 1..Len(audios) :
                    audios[a].frag.n = n /\ ~audios[a].sounding)

\* This step delivers a terminal notification of element a while a is not
\* the current session.
StaleNotification(a) ==
    /\ a \in 1..Len(audios)
    /\ a # currentAudio
    /\ audios'[a].pend # audios[a].pend

\* C21: a terminal notification (ended, error, play() rejection) that
\* belongs to a session that is no longer current does not mark the current
\* session as not playing, does not drop the reference to it and does not
\* dequeue another fragment: each session advances the queue at most once.
C21_StaleNotificationIgnored ==
    [][ \A a \in 1..MaxEnqueue :
          StaleNotification(a) =>
              UNCHANGED <<isPlaying, currentAudio, queue>> ]_vars

\* This step is a call of enqueue().
EnqueueStep == Len(enqueued') = Len(enqueued) + 1

\* Fragment number n is waiting in the queue q.
Queued(q, n) == \E i \in 1..Len(q) : q[i].n = n

\* An element was created for fragment number n in auds.
Begun(auds, n) == \E a \in 1..Len(auds) : auds[a].frag.n = n

\* C22: a failure to create the AudioContext or a source node never blocks
\* the sequencing: a fragment with a payload handed to enqueue() is queued
\* or begun when enqueue() is done, the sequencer is never marked as playing
\* without a current session that can still deliver a terminal event, and
\* fragments queued later still begin playback.
C22_GraphFailureNeverBlocks ==
    /\ [][ (EnqueueStep /\ HasPayload(enqueued'[Len(enqueued')])) =>
              \/ Queued(queue', Len(enqueued'))
              \/ Begun(audios', Len(enqueued')) ]_vars
    /\ [](isPlaying =>
             currentAudio # NULL /\ audios[currentAudio].pend # {})
    /\ \A n \in 1..MaxEnqueue :
          (Queued(queue, n) /\ HasPayload(enqueued[n]))
             ~> (nClear > 0 \/ Begun(audios, n))

\* The Assistant entries of a transcript, in order.
AssistantEntries(msgs) == SelectSeq(msgs, LAMBDA m : m.role = "model")

\* C23: the transcript holds one Assistant entry per maximal run of
\* TextTokens delimited by StreamEnd frames, in order, and the content of
\* each entry is the concatenation of the tokens of its own turn only.
C23_OneEntryPerTurn ==
    LET entries == AssistantEntries(messages) IN
    /\ Len(entries) = Len(turns)
    /\ \A i \in 1..Len(entries) : entries[i].content = turns[i]


\* new is old with one entry added at the end.
Appended(old, new) ==
    Len(new) = Len(old) + 1 /\ SubSeq(new, 1, Len(old)) = old

\* new is old with text appended to the content of its last entry, which is
\* an Assistant entry.
TailExtended(old, new) ==
    /\ old # <<>>
    /\ old[Len(old)].role = "model"
    /\ \E c \in Tokens :
          new = [old EXCEPT ![Len(old)].content = Append(@, c)]

\* This step is a TextToken handled while a reply is marked as in progress:
\* the handler calls updateBotReply.
ExtendStep ==
    /\ budget'.inbound = budget.inbound + 1
    /\ lastEvent'.kind = "token"
    /\ isReceivingBotMessage

\* What C24 allows a step to do to the transcript.
TranscriptStep ==
    /\ \/ messages' = messages
       \/ messages' = <<>>
       \/ Appended(messages, messages')
       \/ TailExtended(messages, messages')
    /\ (ExtendStep /\ (messages = <<>> \/ messages[Len(messages)].role # "model"))
          => messages' = messages

\* C24: between two clears every step leaves the transcript as it is, appends
\* one entry, or appends text to the content of the last entry when that is
\* an Assistant entry; updateBotReply on an empty transcript or on one whose
\* last entry is not an Assistant entry changes nothing.
C24_AppendOnlyButTail == [][TranscriptStep]_vars

\* C24 witness: updateBotReply has extended the Assistant entry at the tail.
C24_Witness ==
    /\ lastEvent.kind = "token"
    /\ messages # <<>>
    /\ messages[Len(messages)].role = "model"
    /\ Len(messages[Len(messages)].content) = 2

\* The number of records of s equal to t.
Count(s, t) == Cardinality({i \in 1..Len(s) : s[i] = t})

\* The position of the first record of s equal to t (there is one).
FirstIndexOf(s, t) ==
    CHOOSE i \in 1..Len(s) : s[i] = t /\ \A j \in 1..(i - 1) : s[j] # t

\* C25: matching an inbound echo against the pending list removes only the
\* first record equal to the echoed text; the other records, later copies
\* of the same text included, stay in order, so that n pending copies
\* suppress n echoes and the next echo is appended as a RemoteUser entry.
C25_FirstMatchOnly ==
    [][ \A t \in GatewayEchoes :
          EchoStep(t) =>
              IF Count(sentMessages, t) > 0
              THEN /\ sentMessages' =
                         Without(sentMessages, FirstIndexOf(sentMessages, t))
                   /\ Count(sentMessages', t) = Count(sentMessages, t) - 1
                   /\ messages' = messages
              ELSE messages' = Append(messages, RemoteUser(t)) ]_vars

\* C25 witness: the same text was submitted twice and the first frame that
\* arrived, an echo of it, has just been handled while both records were
\* pending: one of the two is still pending.
C25_Witness ==
    /\ lastEvent.kind = "echo"
    /\ Len(wire) = 2
    /\ wire[1].text = lastEvent.text
    /\ wire[2].text = lastEvent.text
    /\ budget.inbound = 1
    /\ sentMessages = <<lastEvent.text>>
    /\ \A i \in 1..Len(messages) : messages[i].role # "other-user"


\* C26: enqueue() on an idle AudioQueue starts the playback of the enqueued
\* fragment in the same step and leaves the queue empty; enqueue() while a
\* session is playing only appends the fragment to the queue and leaves the
\* current session, the playing flag and the observer untouched.
C26_EnqueuePumpsWhenIdle ==
    [][ EnqueueStep =>
          IF ~isPlaying
          THEN /\ isPlaying'
               /\ Begun(audios', Len(enqueued'))
               /\ queue' = <<>>
          ELSE /\ queue' = Append(queue, enqueued'[Len(enqueued')])
               /\ UNCHANGED <<isPlaying, currentAudio, audios, cbLog>> ]_vars

\* C27: when a handler of the AudioQueue is done, the value last delivered
\* to the playback-state observer, if any, equals the playing flag.
C27_ObserverAgreesWithFlag ==
    cbLog # <<>> => cbLog[Len(cbLog)] = isPlaying


\* Fragment number n was handed to enqueue() after the last clear().
AfterClear(n) == nClear > 0 /\ clearMark < n /\ n <= Len(enqueued)

\* Every element this step creates is for a fragment handed to enqueue()
\* after the last clear().
BeginsOnlyLater ==
    \A a \in (Len(audios) + 1)..Len(audios') : audios'[a].frag.n > clearMark'

\* C28: after clear() no fragment enqueued before it ever begins playback,
\* and every fragment with a payload enqueued after it does begin, also
\* when notifications of the cleared session arrive afterwards.
C28_ClearLeavesUsable ==
    /\ [][BeginsOnlyLater]_vars
    /\ \A n \in 1..MaxEnqueue :
          (AfterClear(n) /\ HasPayload(enqueued[n]))
             ~> (Begun(audios, n) \/ clearMark >= n)


\* This step handles the first TextToken of the current connection.
FirstTokenStep ==
    /\ fresh
    /\ budget'.inbound = budget.inbound + 1
    /\ lastEvent'.kind = "token"

\* C29: the first TextToken received on a connection after it was opened or
\* reopened adds a new Assistant entry holding that token to the transcript
\* and, when the AudioQueue is idle, moves the presentation state to
\* Thinking, also when the previous connection ended in the middle of a reply.
C29_FirstTokenOpensEntry ==
    [][ FirstTokenStep =>
          /\ messages' = Append(messages, [role |-> "model",
                                           content |-> <<lastEvent'.text>>])
          /\ ~isPlaying => streamerState' = "Thinking" ]_vars


\* This step delivers a close or error event of a superseded socket.
StaleStep == stale' # stale /\ Len(stale') <= Len(stale)

\* C30: the status follows the current socket only: the close and error
\* events of a socket that connect() has replaced leave the status as it
\* is, so that the status is Connected whenever the current socket is open.
C30_StatusTracksCurrentSocket ==
    /\ [][StaleStep => UNCHANGED status]_vars
    /\ [](ws = "open" => status = "Connected")

====
